---- MODULE Spec2Model ----
(***************************************************************************)
(* Model of the downloads page of NepaliWalletDesktop                      *)
(* (src/app/dashboard/downloads/page.tsx): the React state of              *)
(* DownloadsPage, the export folder on disk, and every asynchronous        *)
(* handler of the page, cut at its awaits.  One action is one run of the   *)
(* event loop: a click, or the completion of an awaited host call together *)
(* with the synchronous code that follows it up to the next await.         *)
(***************************************************************************)
EXTENDS Integers, Sequences, FiniteSets, TLC

\* ------------------------------------------------------------------ bounds

\* Number of events from outside the page explored in one behaviour: the
\* clicks that start a handler (refresh, open, delete, copy) and the removals
\* of an entry, or of the whole folder, by another program.
MaxEvents == 2

\* ---------------------------------------------------------------- file names

\* A string is a sequence of one-character strings, so that split, pop and
\* toLowerCase are computed and not assumed.
A_TXT == <<"a", ".", "t", "x", "t">>
C_PDF == <<"c", ".", "P", "D", "F">>
CSV == <<"c", "s", "v">>
SUB == <<"s", "u", "b">>
D_DOT == <<"d", ".">>
E_MD == <<"e", ".", "m", "d">>

\* The entries the export folder can hold, in the order readDir enumerates
\* them.  mtime is the stat result's mtime field: <<>> is null, <<ms>> a Date.
\* text is what readTextFile decodes, bytes what readFile reads.
Universe ==
    << [name |-> SUB, isFile |-> FALSE, mtime |-> <<3>>,
        text |-> <<>>, bytes |-> <<>>],
       [name |-> CSV, isFile |-> TRUE, mtime |-> <<>>,
        text |-> <<"k", ",", "l", "\n", "\n", "1", ",", "2">>, bytes |-> <<107, 44, 108>>],
       [name |-> A_TXT, isFile |-> TRUE, mtime |-> <<1>>,
        text |-> <<"h", "\n", "w">>, bytes |-> <<104, 10, 119>>],
       [name |-> C_PDF, isFile |-> TRUE, mtime |-> <<1>>,
        text |-> <<"%", "P">>, bytes |-> <<37, 80, 68>>],
       [name |-> D_DOT, isFile |-> TRUE, mtime |-> <<2>>,
        text |-> <<>>, bytes |-> <<>>],
       [name |-> E_MD, isFile |-> TRUE, mtime |-> <<>>,
        text |-> <<"#">>, bytes |-> <<35, 0, 255>>] >>

Names == {Universe[i].name : i \in DOMAIN Universe}

\* The contents of the export folder the page is mounted on: one of two
\* folders.
Directories == { {SUB, CSV, A_TXT, C_PDF}, {D_DOT, E_MD} }

Entry(n) == Universe[CHOOSE i \in DOMAIN Universe : Universe[i].name = n]

\* ------------------------------------------------------------ pure functions

Range(s) == {s[i] : i \in DOMAIN s}

Null == [type |-> "null"]

ToLowerCase(c) ==
    CASE c = "T" -> "t"
      [] c = "X" -> "x"
      [] c = "C" -> "c"
      [] c = "S" -> "s"
      [] c = "V" -> "v"
      [] c = "P" -> "p"
      [] c = "D" -> "d"
      [] c = "F" -> "f"
      [] OTHER -> c

Lower(s) == [i \in 1..Len(s) |-> ToLowerCase(s[i])]

\* name.split(".").pop(): the part after the last ".", the whole name when it
\* holds no ".".
LastDot(s) ==
    LET dots == {i \in 1..Len(s) : s[i] = "."}
    IN  IF dots = {} THEN 0 ELSE CHOOSE i \in dots : \A j \in dots : j <= i

SplitPop(s) == SubSeq(s, LastDot(s) + 1, Len(s))

\* const ext = file.name.split(".").pop()?.toLowerCase()
ExtOf(name) == Lower(SplitPop(name))

\* The branch of readAnyFile an extension takes: each one awaits a read;
\* "none" falls through to the final return without reading.
BranchOf(ext) ==
    IF ext = <<"t", "x", "t">> THEN "txt"
    ELSE IF ext = <<"c", "s", "v">> THEN "csv"
    ELSE IF ext = <<"p", "d", "f">> THEN "pdf"
    ELSE "none"

\* stats.mtime?.getTime() ?? 0
MtimeOf(stats) == IF stats.mtime = <<>> THEN 0 ELSE stats.mtime[1]

\* Mutant of Compare: the comparator sorts ascending.
CompareAscending(a, b) == a.mtime - b.mtime

\* (a, b) => b.mtime - a.mtime
Compare(a, b) == b.mtime - a.mtime

\* Array.prototype.sort is stable: an element is inserted after every element
\* the comparator does not order behind it.
RECURSIVE InsertSorted(_, _)
InsertSorted(s, x) ==
    IF s = <<>> THEN <<x>>
    ELSE IF Compare(s[Len(s)], x) <= 0 THEN Append(s, x)
    ELSE Append(InsertSorted(SubSeq(s, 1, Len(s) - 1), x), s[Len(s)])

RECURSIVE Sort(_)
Sort(s) ==
    IF s = <<>> THEN <<>>
    ELSE InsertSorted(Sort(SubSeq(s, 1, Len(s) - 1)), s[Len(s)])

\* fileObjects.filter(Boolean)
RECURSIVE FilterBoolean(_)
FilterBoolean(s) ==
    IF s = <<>> THEN <<>>
    ELSE IF s[1] # Null THEN <<s[1]>> \o FilterBoolean(Tail(s))
    ELSE FilterBoolean(Tail(s))

\* Mutant of FilterOutName: the filter keeps the entry it should drop.
FilterOnlyName(prev, name) == SelectSeq(prev, LAMBDA f : f.name = name)

\* prev.filter((f) => f.name !== file.name)
RECURSIVE FilterOutName(_, _)
FilterOutName(prev, name) ==
    IF prev = <<>> THEN <<>>
    ELSE IF prev[1].name # name THEN <<prev[1]>> \o FilterOutName(Tail(prev), name)
    ELSE FilterOutName(Tail(prev), name)

\* text.split(sep), on sequences of characters
RECURSIVE Split(_, _)
Split(s, sep) ==
    LET hits == {i \in 1..Len(s) : s[i] = sep}
    IN  IF hits = {} THEN <<s>>
        ELSE LET i == CHOOSE k \in hits : \A j \in hits : k <= j
             IN  <<SubSeq(s, 1, i - 1)>> \o Split(SubSeq(s, i + 1, Len(s)), sep)

RECURSIVE DropEmpty(_)
DropEmpty(ls) ==
    IF ls = <<>> THEN <<>>
    ELSE IF ls[1] # <<>> THEN <<ls[1]>> \o DropEmpty(Tail(ls))
    ELSE DropEmpty(Tail(ls))

\* Papa.parse(csvText, { header: true, skipEmptyLines: true }).data for
\* unquoted comma-delimited text: the first non-empty line names the columns,
\* every other non-empty line is one row, a sequence of <<key, value>> in
\* column order with the values kept as strings.
ParseCsv(csvText) ==
    LET ls == DropEmpty(Split(csvText, "\n"))
        header == IF ls = <<>> THEN <<>> ELSE Split(ls[1], ",")
        Row(l) == LET cells == Split(l, ",")
                  IN  [i \in 1..(IF Len(cells) < Len(header) THEN Len(cells) ELSE Len(header))
                          |-> <<header[i], cells[i]>>]
    IN  [r \in 1..(IF ls = <<>> THEN 0 ELSE Len(ls) - 1) |-> Row(ls[r + 1])]

\* The base64 alphabet; a base64 string is a sequence of its characters.
B64 ==
    << "A", "B", "C", "D", "E", "F", "G", "H", "I", "J", "K", "L", "M", "N", "O", "P",
       "Q", "R", "S", "T", "U", "V", "W", "X", "Y", "Z", "a", "b", "c", "d", "e", "f",
       "g", "h", "i", "j", "k", "l", "m", "n", "o", "p", "q", "r", "s", "t", "u", "v",
       "w", "x", "y", "z", "0", "1", "2", "3", "4", "5", "6", "7", "8", "9", "+", "/" >>

B64Index(c) == (CHOOSE i \in DOMAIN B64 : B64[i] = c) - 1

\* The host's base64 encoding of a byte sequence whose length is a multiple of 3.
RECURSIVE Btoa(_)
Btoa(bytes) ==
    IF Len(bytes) < 3 THEN <<>>
    ELSE LET n == bytes[1] * 65536 + bytes[2] * 256 + bytes[3]
         IN  << B64[(n \div 262144) + 1], B64[((n \div 4096) % 64) + 1],
                B64[((n \div 64) % 64) + 1], B64[(n % 64) + 1] >>
             \o Btoa(SubSeq(bytes, 4, Len(bytes)))

\* atob(binary) followed by arr[i] = raw.charCodeAt(i)
RECURSIVE Atob(_)
Atob(b64) ==
    IF Len(b64) < 4 THEN <<>>
    ELSE LET n == B64Index(b64[1]) * 262144 + B64Index(b64[2]) * 4096
                  + B64Index(b64[3]) * 64 + B64Index(b64[4])
         IN  << n \div 65536, (n \div 256) % 256, n % 256 >>
             \o Atob(SubSeq(b64, 5, Len(b64)))

\* atob throws on a character outside the alphabet.
AtobThrows(b64) == \E i \in DOMAIN b64 : b64[i] \notin Range(B64)

\* typeof binary === "string" ? decoded : binary
ToUint8(binary) == IF binary.typeof = "string" THEN Atob(binary.data) ELSE binary.data

\* join(docDir, EXPORT_FOLDER, file.name)
EXPORT_FOLDER == <<"N", "W">>

DocumentDir == <<"/", "D">>

Join(docDir, folder, name) == docDir \o <<"/">> \o folder \o <<"/">> \o name

\* --------------------------------------------------------------------- state

VARIABLES
    isTauri,      \* "__TAURI_INTERNALS__" in window
    dirExists,    \* the export folder exists under the documents root
    disk,         \* names of the entries the export folder holds
    files,        \* useState<FileType[]>([])
    loading,      \* useState(false)
    fileContent,  \* useState<PreviewResult | null>(null)
    pdfUrl,       \* useState("")
    fileName,     \* useState("")
    objectUrls,   \* the blobs registered by URL.createObjectURL, in creation order
    loadPc,       \* position of the mount effect's load()
    lists,        \* the loadFiles calls, in call order
    opens,        \* the openFile calls, in call order
    deletes,      \* the deleteFile calls, in call order
    copies,       \* the copyFilePath calls, in call order
    clipboard,    \* the text last written to the clipboard
    toasts,       \* the title of the last toast shown
    log,          \* the last message written by console.error or console.warn
    thrown,       \* the failures that left a handler uncaught
    calls         \* number of clicks and external removals so far

vars ==
    << isTauri, dirExists, disk, files, loading, fileContent, pdfUrl, fileName,
       objectUrls, loadPc, lists, opens, deletes, copies, clipboard, toasts, log,
       thrown, calls >>

EmptyString == <<>>

\* The string URL.createObjectURL returns for the k-th blob it registers.
BlobUrl(k) == <<"blob:", k>>

\* The object URLs that were created and not released.  The page holds no call
\* of URL.revokeObjectURL, so nothing ever leaves objectUrls.
LiveUrls == {BlobUrl(k) : k \in 1..Len(objectUrls)}

Unknown == [type |-> "unknown", content |-> Null]

\* readDir's result: the entries on disk in enumeration order.
ReadDir == SelectSeq([i \in DOMAIN Universe |->
                         [name |-> Universe[i].name, isFile |-> Universe[i].isFile]],
                     LAMBDA e : e.name \in disk)

\* A loadFiles call that has ended, at "done" (after the try body) or at
\* "caught" (after the catch).  entries keeps the snapshot readDir delivered
\* to the call, and gone the names deleteFile had removed when it started.
ListEnded(pc, entries, gone) ==
    [pc |-> pc, entries |-> entries, pending |-> {}, objs |-> <<>>, gone |-> gone]

\* The names a deleteFile call has removed.
Deleted == {deletes[d].file : d \in {k \in DOMAIN deletes : deletes[k].pc = "removed"}}

\* {(pdfUrl || fileContent) ? preview : list}
PreviewShown == pdfUrl # EmptyString \/ fileContent # Null

\* The card with the refresh button: {isTauri() && (<Card ...>)}
ListShown == ~PreviewShown /\ isTauri

\* The rows with the Open, Delete and Copy buttons of each catalog entry.
RowsShown == ListShown /\ ~loading /\ files # <<>>

Mounted == loadPc # "mount"

TypeOK ==
    /\ isTauri \in BOOLEAN
    /\ dirExists \in BOOLEAN
    /\ disk \subseteq Names
    /\ loading \in BOOLEAN
    /\ \A i \in DOMAIN files : files[i].name \in Names /\ files[i].mtime \in Nat
    /\ loadPc \in {"mount", "exists", "mkdir", "done"}
    /\ calls \in 0..MaxEvents
    /\ Len(lists) + Len(opens) + Len(deletes) + Len(copies) <= calls + 1

Init ==
    /\ isTauri \in BOOLEAN
    /\ dirExists \in BOOLEAN
    /\ disk \in IF dirExists THEN Directories ELSE {{}}
    /\ files = <<>>
    /\ loading = FALSE
    /\ fileContent = Null
    /\ pdfUrl = EmptyString
    /\ fileName = EmptyString
    /\ objectUrls = <<>>
    /\ loadPc = "mount"
    /\ lists = <<>>
    /\ opens = <<>>
    /\ deletes = <<>>
    /\ copies = <<>>
    /\ clipboard = EmptyString
    /\ toasts = ""
    /\ log = ""
    /\ thrown = {}
    /\ calls = 0

\* ------------------------------------------------------- mount and loadFiles

\* loadFiles up to its first await: the gate, setLoading(true), readDir issued.
LoadFilesCall ==
    IF isTauri
    THEN /\ loading' = TRUE
         /\ lists' = Append(lists, [pc |-> "readDir", entries |-> <<>>,
                                    pending |-> {}, objs |-> <<>>,
                                    gone |-> Deleted])
    ELSE UNCHANGED <<loading, lists>>

\* Mutant of Mount: load() calls ensureFolderExists outside the desktop host
\* too.
MountUngated ==
    /\ loadPc = "mount"
    /\ loadPc' = "exists"
    /\ UNCHANGED << isTauri, dirExists, disk, files, loading, fileContent, pdfUrl,
                    fileName, objectUrls, lists, opens, deletes, copies, clipboard,
                    toasts, log, thrown, calls >>

\* The mount effect: load() runs up to the exists() call of
\* ensureFolderExists, or does nothing outside the desktop host.
Mount ==
    /\ loadPc = "mount"
    /\ loadPc' = IF isTauri THEN "exists" ELSE "done"
    /\ UNCHANGED << isTauri, dirExists, disk, files, loading, fileContent, pdfUrl,
                    fileName, objectUrls, lists, opens, deletes, copies, clipboard,
                    toasts, log, thrown, calls >>

\* Mutant of EnsureCatch: the catch logs and throws the failure again.
EnsureCatchRethrows ==
    /\ log' = "Folder creation failed:"
    /\ thrown' = thrown \cup {"ensureFolderExists"}

\* catch (e) { console.warn("Folder creation failed:", e) }
EnsureCatch ==
    /\ log' = "Folder creation failed:"
    /\ thrown' = thrown

\* exists() settles.  The folder is there: ensureFolderExists returns and
\* load() goes on to loadFiles().  It is not: mkdir is issued.  exists()
\* rejects: the catch logs and load() goes on to loadFiles().
ExistsDone ==
    /\ loadPc = "exists"
    /\ \/ /\ dirExists
          /\ loadPc' = "done"
          /\ LoadFilesCall
          /\ UNCHANGED <<log, thrown>>
       \/ /\ ~dirExists
          /\ loadPc' = "mkdir"
          /\ UNCHANGED <<loading, lists, log, thrown>>
       \/ /\ loadPc' = "done"
          /\ EnsureCatch
          /\ LoadFilesCall
    /\ UNCHANGED << isTauri, dirExists, disk, files, fileContent, pdfUrl, fileName,
                    objectUrls, opens, deletes, copies, clipboard, toasts, calls >>

\* mkdir(EXPORT_FOLDER, { recursive: true }) settles; load() goes on to
\* loadFiles() either way.
MkdirDone ==
    /\ loadPc = "mkdir"
    /\ loadPc' = "done"
    /\ \/ /\ dirExists' = TRUE
          /\ UNCHANGED <<log, thrown>>
       \/ /\ EnsureCatch
          /\ UNCHANGED dirExists
    /\ LoadFilesCall
    /\ UNCHANGED << isTauri, disk, files, fileContent, pdfUrl, fileName, objectUrls,
                    opens, deletes, copies, clipboard, toasts, calls >>

\* <Button onClick={loadFiles}>
Refresh ==
    /\ Mounted
    /\ ListShown
    /\ calls < MaxEvents
    /\ calls' = calls + 1
    /\ LoadFilesCall
    /\ UNCHANGED << isTauri, dirExists, disk, files, fileContent, pdfUrl, fileName,
                    objectUrls, loadPc, opens, deletes, copies, clipboard, toasts,
                    log, thrown >>

\* Mutant of ListCatch: the catch logs and leaves the catalog as it is.
ListCatchKeepsFiles(t) ==
    /\ log' = "Error listing files"
    /\ files' = files
    /\ loading' = FALSE
    /\ lists' = [lists EXCEPT ![t] = ListEnded("caught", lists[t].entries, lists[t].gone)]
    /\ thrown' = thrown

\* catch (err) { console.error("Error listing files", err); setFiles([]) }
\* and the setLoading(false) that follows the try statement.
ListCatch(t) ==
    /\ log' = "Error listing files"
    /\ files' = <<>>
    /\ loading' = FALSE
    /\ lists' = [lists EXCEPT ![t] = ListEnded("caught", lists[t].entries, lists[t].gone)]
    /\ thrown' = thrown

\* Mutant of ListCommit: only the call that started last sets the catalog.
ListCommitIfLatest(t, entries, fileObjects) ==
    /\ files' = IF t = Len(lists) THEN Sort(FilterBoolean(fileObjects)) ELSE files
    /\ loading' = FALSE
    /\ lists' = [lists EXCEPT ![t] = ListEnded("done", entries, lists[t].gone)]
    /\ UNCHANGED <<log, thrown>>

\* Promise.all has resolved with fileObjects: filter(Boolean), sort, setFiles,
\* and the setLoading(false) that follows the try statement.
ListCommit(t, entries, fileObjects) ==
    /\ files' = Sort(FilterBoolean(fileObjects))
    /\ loading' = FALSE
    /\ lists' = [lists EXCEPT ![t] = ListEnded("done", entries, lists[t].gone)]
    /\ UNCHANGED <<log, thrown>>

\* Mutant of StatIssued: the callback issues a stat for every entry.
StatIssuedForAll(entries) == DOMAIN entries

\* if (!entry.isFile) return null: the entries whose callback goes on to
\* issue a stat.
StatIssued(entries) == {i \in DOMAIN entries : entries[i].isFile}

\* readDir settles.  Each entry's callback runs to its first await: a
\* non-file entry returns null at once, a file entry issues its stat.
ReadDirDone(t) ==
    /\ lists[t].pc = "readDir"
    /\ \/ /\ dirExists
          /\ LET entries == ReadDir
                 pending == StatIssued(entries)
                 objs == [i \in DOMAIN entries |-> Null]
             IN  IF pending = {}
                 THEN ListCommit(t, entries, objs)
                 ELSE /\ lists' = [lists EXCEPT ![t] =
                                      [pc |-> "stat", entries |-> entries,
                                       pending |-> pending, objs |-> objs,
                                       gone |-> lists[t].gone]]
                      /\ UNCHANGED <<files, loading, log, thrown>>
       \/ ListCatch(t)
    /\ UNCHANGED << isTauri, dirExists, disk, fileContent, pdfUrl, fileName,
                    objectUrls, loadPc, opens, deletes, copies, clipboard, toasts,
                    calls >>

\* One entry's stat settles.  It resolves: the callback returns
\* { name, mtime }, and when it was the last one Promise.all resolves.  It
\* rejects: Promise.all rejects and the catch of loadFiles runs.
StatDone(t, i) ==
    /\ lists[t].pc = "stat"
    /\ i \in lists[t].pending
    /\ \/ /\ lists[t].entries[i].name \in disk
          /\ LET name == lists[t].entries[i].name
                 objs == [lists[t].objs EXCEPT ![i] =
                             [name |-> name, mtime |-> MtimeOf(Entry(name))]]
             IN  IF lists[t].pending = {i}
                 THEN ListCommit(t, lists[t].entries, objs)
                 ELSE /\ lists' = [lists EXCEPT ![t].pending = @ \ {i},
                                                ![t].objs = objs]
                      /\ UNCHANGED <<files, loading, log, thrown>>
       \/ ListCatch(t)
    /\ UNCHANGED << isTauri, dirExists, disk, fileContent, pdfUrl, fileName,
                    objectUrls, loadPc, opens, deletes, copies, clipboard, toasts,
                    calls >>

\* ------------------------------------------------------ openFile, readAnyFile

\* Mutant of ReadCatch: the catch shows the value it returns.
ReadCatchShowsUnknown(o) ==
    /\ log' = "File read failed:"
    /\ opens' = [opens EXCEPT ![o].pc = "caught", ![o].result = Unknown]
    /\ thrown' = thrown
    /\ fileContent' = Unknown
    /\ UNCHANGED <<pdfUrl, objectUrls>>

\* catch (err) { console.error("File read failed:", err); return unknown }
ReadCatch(o) ==
    /\ log' = "File read failed:"
    /\ opens' = [opens EXCEPT ![o].pc = "caught", ![o].result = Unknown]
    /\ thrown' = thrown
    /\ UNCHANGED <<fileContent, pdfUrl, objectUrls>>

\* setFileContent({ type: "txt", content: text })
SetTxt(text) ==
    /\ fileContent' = [type |-> "txt", content |-> text]
    /\ UNCHANGED <<pdfUrl, objectUrls>>

\* Papa.parse, setFileContent({ type: "csv", content: parsed.data })
SetCsv(csvText) ==
    /\ fileContent' = [type |-> "csv", content |-> ParseCsv(csvText)]
    /\ UNCHANGED <<pdfUrl, objectUrls>>

\* new Blob([uint8]), URL.createObjectURL(blob), setPdfUrl(url)
SetPdf(binary) ==
    /\ objectUrls' = Append(objectUrls, ToUint8(binary))
    /\ pdfUrl' = BlobUrl(Len(objectUrls) + 1)
    /\ UNCHANGED fileContent

\* The values readFile can deliver for a file: its bytes, or a string that
\* is their base64 encoding or is no base64 at all, depending on the host.
ReadFileResults(name) ==
    { [typeof |-> "object", data |-> Entry(name).bytes],
      [typeof |-> "string", data |-> Btoa(Entry(name).bytes)],
      [typeof |-> "string", data |-> <<"!">>] }

\* <Button onClick={() => openFile(file)}>: the three setters, then
\* readAnyFile up to its first await.  An extension that takes no branch
\* reaches the final return without reading.
OpenFile(file) ==
    /\ RowsShown
    /\ file \in Range(files)
    /\ calls < MaxEvents
    /\ calls' = calls + 1
    /\ pdfUrl' = EmptyString
    /\ fileContent' = Null
    /\ fileName' = file.name
    /\ LET branch == BranchOf(ExtOf(file.name))
       IN  opens' = Append(opens,
                           IF branch = "none"
                           THEN [file |-> file.name, branch |-> branch,
                                 pc |-> "returned", result |-> Unknown]
                           ELSE [file |-> file.name, branch |-> branch,
                                 pc |-> "read", result |-> Null])
    /\ UNCHANGED << isTauri, dirExists, disk, files, loading, objectUrls, loadPc,
                    lists, deletes, copies, clipboard, toasts, log, thrown >>

\* The read of an open call settles.  It resolves: the branch's setter runs
\* and readAnyFile falls through to the final return, whose value is
\* { type: "unknown", content: null }.  It rejects, or atob throws: the catch
\* runs.
ReadDone(o) ==
    /\ opens[o].pc = "read"
    /\ \/ /\ opens[o].file \in disk
          /\ \/ /\ opens[o].branch = "txt"
                /\ SetTxt(Entry(opens[o].file).text)
             \/ /\ opens[o].branch = "csv"
                /\ SetCsv(Entry(opens[o].file).text)
             \/ /\ opens[o].branch = "pdf"
                /\ \E binary \in ReadFileResults(opens[o].file) :
                      /\ ~(binary.typeof = "string" /\ AtobThrows(binary.data))
                      /\ SetPdf(binary)
          /\ opens' = [opens EXCEPT ![o].pc = "returned", ![o].result = Unknown]
          /\ UNCHANGED <<log, thrown>>
       \/ /\ opens[o].file \in disk
          /\ opens[o].branch = "pdf"
          /\ \E binary \in ReadFileResults(opens[o].file) :
                binary.typeof = "string" /\ AtobThrows(binary.data)
          /\ ReadCatch(o)
       \/ ReadCatch(o)
    /\ UNCHANGED << isTauri, dirExists, disk, files, loading, fileName, loadPc,
                    lists, deletes, copies, clipboard, toasts, calls >>

\* <X onClick={...}>: the close handler of the preview.
ClosePreview ==
    /\ PreviewShown
    /\ pdfUrl' = EmptyString
    /\ fileContent' = Null
    /\ fileName' = EmptyString
    /\ UNCHANGED << isTauri, dirExists, disk, files, loading, objectUrls, loadPc,
                    lists, opens, deletes, copies, clipboard, toasts, log, thrown,
                    calls >>

\* ------------------------------------------------------------------ deleteFile

\* <Button onClick={() => deleteFile(file)}>: the gate, then remove issued.
DeleteFile(file) ==
    /\ RowsShown
    /\ file \in Range(files)
    /\ calls < MaxEvents
    /\ calls' = calls + 1
    /\ deletes' = IF isTauri
                  THEN Append(deletes, [file |-> file.name, pc |-> "remove"])
                  ELSE deletes
    /\ UNCHANGED << isTauri, dirExists, disk, files, loading, fileContent, pdfUrl,
                    fileName, objectUrls, loadPc, lists, opens, copies, clipboard,
                    toasts, log, thrown >>

\* setFiles((prev) => prev.filter((f) => f.name !== file.name))
DeleteCommit(d) ==
    /\ files' = FilterOutName(files, deletes[d].file)
    /\ deletes' = [deletes EXCEPT ![d].pc = "removed"]
    /\ UNCHANGED <<log, thrown>>

\* Mutant of DeleteCatch: the entry leaves the catalog although remove failed.
DeleteCatchFilters(d) ==
    /\ log' = "Error deleting file"
    /\ deletes' = [deletes EXCEPT ![d].pc = "caught"]
    /\ thrown' = thrown
    /\ files' = FilterOutName(files, deletes[d].file)
    /\ UNCHANGED disk

\* catch (err) { console.error("Error deleting file", err) }
DeleteCatch(d) ==
    /\ log' = "Error deleting file"
    /\ deletes' = [deletes EXCEPT ![d].pc = "caught"]
    /\ thrown' = thrown
    /\ UNCHANGED <<files, disk>>

\* remove settles: the file is gone from the disk and from the catalog, or
\* the catch runs.
RemoveDone(d) ==
    /\ deletes[d].pc = "remove"
    /\ \/ /\ deletes[d].file \in disk
          /\ disk' = disk \ {deletes[d].file}
          /\ DeleteCommit(d)
       \/ DeleteCatch(d)
    /\ UNCHANGED << isTauri, dirExists, loading, fileContent, pdfUrl, fileName,
                    objectUrls, loadPc, lists, opens, copies, clipboard, toasts,
                    calls >>

\* ---------------------------------------------------------------- copyFilePath

\* <Button onClick={() => copyFilePath(file)}>: the gate, then the dynamic
\* import of the clipboard plugin issued, the first await that resolves the path.
CopyFilePath(file) ==
    /\ RowsShown
    /\ file \in Range(files)
    /\ calls < MaxEvents
    /\ calls' = calls + 1
    /\ copies' = IF isTauri
                 THEN Append(copies, [file |-> file.name, pc |-> "resolve",
                                      path |-> EmptyString])
                 ELSE copies
    /\ UNCHANGED << isTauri, dirExists, disk, files, loading, fileContent, pdfUrl,
                    fileName, objectUrls, loadPc, lists, opens, deletes, clipboard,
                    toasts, log, thrown >>

\* Mutant of CopyCatch: the catch logs and throws the failure again.
CopyCatchRethrows(c) ==
    /\ log' = "Copy failed"
    /\ copies' = [copies EXCEPT ![c].pc = "caught", ![c].path = EmptyString]
    /\ thrown' = thrown \cup {"copyFilePath"}
    /\ UNCHANGED <<clipboard, toasts>>

\* catch (err) { console.error("Copy failed", err) }
CopyCatch(c) ==
    /\ log' = "Copy failed"
    /\ copies' = [copies EXCEPT ![c].pc = "caught", ![c].path = EmptyString]
    /\ thrown' = thrown
    /\ UNCHANGED <<clipboard, toasts>>

\* The awaits that resolve the path have settled: the import of the
\* clipboard plugin, documentDir() and the join promise.  writeText is issued
\* with the joined path, or the catch runs.
CopyResolveDone(c) ==
    /\ copies[c].pc = "resolve"
    /\ \/ /\ copies' = [copies EXCEPT ![c].pc = "writeText",
                                      ![c].path = Join(DocumentDir, EXPORT_FOLDER,
                                                       copies[c].file)]
          /\ UNCHANGED <<clipboard, toasts, log, thrown>>
       \/ CopyCatch(c)
    /\ UNCHANGED << isTauri, dirExists, disk, files, loading, fileContent, pdfUrl,
                    fileName, objectUrls, loadPc, lists, opens, deletes, calls >>

\* writeText settles: the path is on the clipboard and the toast is shown,
\* or the catch runs.
CopyWriteDone(c) ==
    /\ copies[c].pc = "writeText"
    /\ \/ /\ copies' = [copies EXCEPT ![c].pc = "copied", ![c].path = EmptyString]
          /\ clipboard' = copies[c].path
          /\ toasts' = "File path copied to clipboard!"
          /\ UNCHANGED <<log, thrown>>
       \/ CopyCatch(c)
    /\ UNCHANGED << isTauri, dirExists, disk, files, loading, fileContent, pdfUrl,
                    fileName, objectUrls, loadPc, lists, opens, deletes, calls >>

\* ------------------------------------------------------------------ environment

\* Another program removes an entry of the export folder.
ExternalRemove(n) ==
    /\ n \in disk
    /\ calls < MaxEvents
    /\ calls' = calls + 1
    /\ disk' = disk \ {n}
    /\ UNCHANGED << isTauri, dirExists, files, loading, fileContent, pdfUrl,
                    fileName, objectUrls, loadPc, lists, opens, deletes, copies,
                    clipboard, toasts, log, thrown >>

\* Another program removes the export folder with all it holds.
ExternalRemoveDir ==
    /\ dirExists
    /\ calls < MaxEvents
    /\ calls' = calls + 1
    /\ dirExists' = FALSE
    /\ disk' = {}
    /\ UNCHANGED << isTauri, files, loading, fileContent, pdfUrl, fileName,
                    objectUrls, loadPc, lists, opens, deletes, copies, clipboard,
                    toasts, log, thrown >>

Next ==
    \/ Mount
    \/ ExistsDone
    \/ MkdirDone
    \/ Refresh
    \/ \E t \in DOMAIN lists : ReadDirDone(t)
    \/ \E t \in DOMAIN lists : \E i \in lists[t].pending : StatDone(t, i)
    \/ \E file \in Range(files) : OpenFile(file)
    \/ \E o \in DOMAIN opens : ReadDone(o)
    \/ ClosePreview
    \/ \E file \in Range(files) : DeleteFile(file)
    \/ \E d \in DOMAIN deletes : RemoveDone(d)
    \/ \E file \in Range(files) : CopyFilePath(file)
    \/ \E c \in DOMAIN copies : CopyResolveDone(c)
    \/ \E c \in DOMAIN copies : CopyWriteDone(c)
    \/ \E n \in Names : ExternalRemove(n)
    \/ ExternalRemoveDir

Spec == Init /\ [][Next]_vars

\* ------------------------------------------------------------------ properties

NamesOf(catalog) == {catalog[i].name : i \in DOMAIN catalog}

\* Position of a name in the enumeration order of the export folder.
EnumIndex(n) == CHOOSE i \in DOMAIN Universe : Universe[i].name = n

ListInFlight(t) == lists[t].pc \in {"readDir", "stat"}

\* C1: at most one object URL is live (created and not released) at any
\* instant, across any sequence of open and close calls.
C1_AtMostOneLiveUrl == Cardinality(LiveUrls) <= 1

\* C2: closing the preview while no open call is in flight leaves no created
\* object URL unreleased.
C2_CloseReleases ==
    [][ ( /\ PreviewShown
          /\ ~PreviewShown'
          /\ \A o \in DOMAIN opens : opens[o].pc # "read" )
        => LiveUrls' = {} ]_vars

\* C3: the binary preview (pdfUrl non-empty) and a text or tabular preview
\* (fileContent non-null) are never both set.
C3_AtMostOnePreview == ~(pdfUrl # EmptyString /\ fileContent # Null)

\* C4: when remove succeeds for a delete of f, that same step takes f out of
\* the catalog, keeps every other entry in its previous order and starts no
\* list call; and a list call that started after f was deleted never ends
\* with f in the catalog.
C4_DeleteRemovesEntry ==
    [][ /\ \A d \in DOMAIN deletes :
              (deletes[d].pc = "remove" /\ deletes'[d].pc = "removed")
              => /\ deletes[d].file \notin NamesOf(files')
                 /\ files' = SelectSeq(files, LAMBDA e : e.name # deletes[d].file)
                 /\ lists' = lists
                 /\ deletes[d].file \notin disk'
        /\ \A t \in DOMAIN lists :
              (ListInFlight(t) /\ ~ListInFlight(t)')
              => NamesOf(files') \cap lists[t].gone = {} ]_vars

\* A delete has removed its file, a list call that started after it has
\* ended, and the catalog holds other entries but not that file.
C4_Witness ==
    \E d \in DOMAIN deletes : \E t \in DOMAIN lists :
        /\ deletes[d].pc = "removed"
        /\ lists[t].pc = "done"
        /\ deletes[d].file \in lists[t].gone
        /\ files # <<>>
        /\ deletes[d].file \notin NamesOf(files)

\* C5: a delete whose remove fails logs the failure, raises nothing and
\* leaves the catalog exactly as it was; a remove of a file that is already
\* gone fails; and an entry leaves the catalog only when a list call ends or
\* when a delete of that entry succeeds.
C5_DeleteFailureKeepsCatalog ==
    [][ /\ \A d \in DOMAIN deletes :
              /\ (deletes[d].pc = "remove" /\ deletes'[d].pc = "caught")
                 => /\ files' = files
                    /\ log' = "Error deleting file"
                    /\ thrown' = thrown
              /\ ( /\ deletes[d].pc = "remove"
                   /\ deletes'[d].pc # "remove"
                   /\ deletes[d].file \notin disk )
                 => deletes'[d].pc = "caught"
        /\ \A n \in NamesOf(files) \ NamesOf(files') :
              \/ \E t \in DOMAIN lists : ListInFlight(t) /\ ~ListInFlight(t)'
              \/ \E d \in DOMAIN deletes :
                    /\ deletes[d].file = n
                    /\ deletes[d].pc = "remove"
                    /\ deletes'[d].pc = "removed" ]_vars

\* A delete of a file that another program had removed has failed, and the
\* stale entry is still in the catalog.
C5_Witness ==
    \E d \in DOMAIN deletes :
        /\ deletes[d].pc = "caught"
        /\ deletes[d].file \notin disk
        /\ deletes[d].file \in NamesOf(files)
        /\ log = "Error deleting file"

\* C6: the catalog is sorted by mtime descending, and entries with equal
\* mtime are in directory enumeration order.
C6_CatalogSorted ==
    \A i \in DOMAIN files : \A j \in DOMAIN files :
        i < j =>
            \/ files[i].mtime > files[j].mtime
            \/ /\ files[i].mtime = files[j].mtime
               /\ EnumIndex(files[i].name) < EnumIndex(files[j].name)

\* After a list and a delete the catalog holds two entries of equal mtime.
C6_Witness ==
    /\ Len(files) = 2
    /\ files[1].mtime = files[2].mtime
    /\ \E d \in DOMAIN deletes : deletes[d].pc = "removed"

\* C7: when a list call that has issued its stats ends, it has not been
\* aborted, and every entry whose stat succeeded is in the catalog.
C7_StatFailureSkipsEntry ==
    [][ \A t \in DOMAIN lists :
          (lists[t].pc = "stat" /\ ~ListInFlight(t)')
          => /\ lists'[t].pc = "done"
             /\ \A i \in DOMAIN lists[t].objs :
                   lists[t].objs[i] # Null
                   => lists[t].objs[i].name \in NamesOf(files') ]_vars

\* C8: a list call whose readDir fails sets the catalog to empty, logs the
\* error, clears loading and raises nothing; and readDir fails when the
\* export folder does not exist.
C8_ReadDirFailureEmptiesCatalog ==
    [][ \A t \in DOMAIN lists :
          /\ (lists[t].pc = "readDir" /\ lists'[t].pc = "caught")
             => /\ files' = <<>>
                /\ loading' = FALSE
                /\ log' = "Error listing files"
                /\ thrown' = thrown
          /\ (lists[t].pc = "readDir" /\ lists'[t].pc # "readDir" /\ ~dirExists)
             => lists'[t].pc = "caught" ]_vars

\* The export folder is gone, a list call has ended in its catch, and the
\* catalog is empty with loading cleared.
C8_Witness ==
    /\ ~dirExists
    /\ loadPc = "done"
    /\ \E t \in DOMAIN lists : lists[t].pc = "caught"
    /\ \A t \in DOMAIN lists : ~ListInFlight(t)
    /\ files = <<>>
    /\ ~loading
    /\ log = "Error listing files"

\* C9: an open whose read or decode fails returns the unsupported result,
\* logs the failure, raises nothing and sets no preview; and the read of a
\* file that is gone fails.
C9_ReadFailureIsUnsupported ==
    [][ \A o \in DOMAIN opens :
          /\ (opens[o].pc = "read" /\ opens'[o].pc = "caught")
             => /\ opens'[o].result = Unknown
                /\ log' = "File read failed:"
                /\ thrown' = thrown
                /\ fileContent' = fileContent
                /\ pdfUrl' = pdfUrl
                /\ objectUrls' = objectUrls
          /\ (opens[o].pc = "read" /\ opens'[o].pc # "read" /\ opens[o].file \notin disk)
             => opens'[o].pc = "caught" ]_vars

\* The only open call has failed on a file that is gone, and no preview is
\* shown.
C9_Witness ==
    /\ Len(opens) = 1
    /\ opens[1].pc = "caught"
    /\ opens[1].file \notin disk
    /\ opens[1].result = Unknown
    /\ fileName = opens[1].file
    /\ ~PreviewShown

\* The kind the claim gives a name: decided by the lowercased suffix after
\* the last ".", unsupported when the name holds no ".".
ClaimedKind(name) ==
    IF "." \notin Range(name) THEN "none"
    ELSE BranchOf(Lower(SubSeq(name, LastDot(name) + 1, Len(name))))

\* C10: every open call takes the branch of the suffix after the last "." of
\* its file name, and a call on a name of no supported suffix, or with no
\* ".", reads nothing.
C10_ClassifiedBySuffix ==
    \A o \in DOMAIN opens :
        /\ opens[o].branch = ClaimedKind(opens[o].file)
        /\ ClaimedKind(opens[o].file) = "none" => opens[o].pc = "returned"

\* C11: an open of a .txt file whose read succeeds returns the text result
\* whose content is exactly the decoded text of the file.
C11_TxtReturnsExactText ==
    [][ \A o \in DOMAIN opens :
          ( /\ opens[o].branch = "txt"
            /\ opens[o].pc = "read"
            /\ opens'[o].pc = "returned" )
          => opens'[o].result = [type |-> "txt",
                                 content |-> Entry(opens[o].file).text] ]_vars

\* The text shown by the step in which the read of a .txt file succeeds is
\* exactly the decoded text of the file.
C11_TxtShownExactText ==
    [][ \A o \in DOMAIN opens :
          ( /\ opens[o].branch = "txt"
            /\ opens[o].pc = "read"
            /\ opens'[o].pc = "returned" )
          => fileContent' = [type |-> "txt",
                             content |-> Entry(opens[o].file).text] ]_vars

\* C12: no entry that is not a regular file is in the catalog, and no list
\* call has issued, or holds a result of, a stat of such an entry.
C12_OnlyRegularFiles ==
    /\ \A i \in DOMAIN files : Entry(files[i].name).isFile
    /\ \A t \in DOMAIN lists : \A i \in DOMAIN lists[t].objs :
          ~lists[t].entries[i].isFile
          => i \notin lists[t].pending /\ lists[t].objs[i] = Null

\* A list call over a folder that holds a subfolder has ended, and the
\* catalog holds the three regular files of the folder.
C12_Witness ==
    /\ SUB \in disk
    /\ ~Entry(SUB).isFile
    /\ \E t \in DOMAIN lists : lists[t].pc = "done"
    /\ Len(files) = 3
    /\ SUB \notin NamesOf(files)

\* C13: while ensureFolderExists has not completed (the mount effect is at
\* exists or at mkdir, or has not run yet), no list, open, delete or copy
\* call has started.
C13_EnsureBeforeOperations ==
    loadPc \in {"mount", "exists", "mkdir"}
    => lists = <<>> /\ opens = <<>> /\ deletes = <<>> /\ copies = <<>>

\* C14: ensureFolderExists on a folder that exists issues no mkdir; no step
\* of it raises, and when it ends loadFiles is called; a failed mkdir is
\* logged and leaves the folder absent; and a list call whose readDir
\* settles while the folder is absent ends with an empty catalog.
C14_EnsureNeverRaises ==
    [][ /\ (loadPc = "exists" /\ loadPc' # "exists" /\ dirExists)
           => loadPc' = "done" /\ dirExists'
        /\ (loadPc \in {"exists", "mkdir"} /\ loadPc' # loadPc)
           => /\ thrown' = thrown
              /\ loadPc' = "done" => Len(lists') = Len(lists) + 1
        /\ (loadPc = "mkdir" /\ loadPc' = "done" /\ ~dirExists')
           => log' = "Folder creation failed:" /\ ~dirExists
        /\ \A t \in DOMAIN lists :
              (lists[t].pc = "readDir" /\ lists'[t].pc # "readDir" /\ ~dirExists)
              => lists'[t].pc = "caught" /\ files' = <<>> ]_vars

\* The folder was absent at mount and is still absent after
\* ensureFolderExists has ended: nothing was raised, and the list call that
\* followed has ended with an empty catalog.
C14_Witness ==
    /\ calls = 0
    /\ loadPc = "done"
    /\ ~dirExists
    /\ thrown = {}
    /\ Len(lists) = 1
    /\ lists[1].pc = "caught"
    /\ files = <<>>

\* The folder existed at mount: ensureFolderExists has ended without a
\* failure logged and the list call that followed has filled the catalog.
C14_WitnessExisting ==
    /\ calls = 0
    /\ loadPc = "done"
    /\ dirExists
    /\ log = ""
    /\ Len(lists) = 1
    /\ lists[1].pc = "done"
    /\ files # <<>>

\* C15: outside the desktop host no host call is ever issued (the mount
\* effect issues no exists or mkdir, and no list, open, delete or copy call
\* exists), the clipboard is untouched, and the catalog, the loading flag and
\* the preview state keep their initial values.
C15_DisabledOutsideHost ==
    ~isTauri
    => /\ loadPc \in {"mount", "done"}
       /\ lists = <<>> /\ opens = <<>> /\ deletes = <<>> /\ copies = <<>>
       /\ clipboard = EmptyString
       /\ objectUrls = <<>>
       /\ files = <<>>
       /\ ~loading
       /\ fileContent = Null /\ pdfUrl = EmptyString /\ fileName = EmptyString
       /\ log = "" /\ toasts = ""

\* Outside the desktop host the mount effect has run over an export folder
\* that holds files, and the catalog is empty.
C15_Witness ==
    /\ ~isTauri
    /\ loadPc = "done"
    /\ dirExists
    /\ A_TXT \in disk
    /\ files = <<>>

\* C16: every step of a copy call (its start, the path resolved, the
\* clipboard written, or its failure) leaves the catalog, the loading flag
\* and the preview state as they were and raises nothing; a failed copy is
\* logged and leaves the clipboard untouched.
C16_CopyLeavesCatalogAndPreview ==
    [][ /\ copies' # copies
           => /\ files' = files
              /\ loading' = loading
              /\ fileContent' = fileContent
              /\ pdfUrl' = pdfUrl
              /\ fileName' = fileName
              /\ thrown' = thrown
        /\ \A c \in DOMAIN copies :
              (copies[c].pc # "caught" /\ copies'[c].pc = "caught")
              => log' = "Copy failed" /\ clipboard' = clipboard ]_vars

\* Two copy calls have ended, the first with the path on the clipboard, the
\* second in its catch; the catalog is still shown and no preview is.
C16_Witness ==
    /\ Len(copies) = 2
    /\ copies[1].pc = "copied"
    /\ copies[2].pc = "caught"
    /\ clipboard = Join(DocumentDir, EXPORT_FOLDER, copies[1].file)
    /\ log = "Copy failed"
    /\ files # <<>>
    /\ ~PreviewShown

\* The catalog a list call builds from the snapshot readDir delivered to it:
\* one { name, mtime } per regular file, sorted.
ResultOf(entries) ==
    Sort(FilterBoolean([i \in DOMAIN entries |->
                           IF entries[i].isFile
                           THEN [name |-> entries[i].name,
                                 mtime |-> MtimeOf(Entry(entries[i].name))]
                           ELSE Null]))

\* C17: a list call that completes sets the catalog to the result of its own
\* snapshot (to empty when it fails), whatever other list calls are in flight
\* or have completed since it started; so once two overlapping calls have
\* both completed the catalog is the result of the one that completed last.
C17_LastCompletedListWins ==
    [][ \A t \in DOMAIN lists :
          /\ (lists[t].pc = "stat" /\ lists'[t].pc = "done")
             => files' = ResultOf(lists[t].entries)
          /\ (lists[t].pc = "readDir" /\ lists'[t].pc = "done")
             => lists'[t].entries = ReadDir /\ files' = ResultOf(ReadDir)
          /\ (ListInFlight(t) /\ lists'[t].pc = "caught")
             => files' = <<>> ]_vars

\* Two list calls have completed; the one that started first holds the older
\* snapshot, with a name the other's snapshot lacks, and the catalog is the
\* result of that older snapshot: the first call completed last.
C17_Witness ==
    /\ Len(lists) = 2
    /\ lists[1].pc = "done"
    /\ lists[2].pc = "done"
    /\ \E n \in NamesOf(lists[1].entries) : n \notin NamesOf(lists[2].entries)
    /\ files = ResultOf(lists[1].entries)
    /\ files # ResultOf(lists[2].entries)

\* The values of fileContent a successful open of the file called name sets.
ContentsOf(name) ==
    LET branch == BranchOf(ExtOf(name))
    IN  IF branch = "txt"
        THEN {[type |-> "txt", content |-> Entry(name).text]}
        ELSE IF branch = "csv"
        THEN {[type |-> "csv", content |-> ParseCsv(Entry(name).text)]}
        ELSE {}

\* The blobs a successful open of the file called name registers.
BlobsOf(name) ==
    IF BranchOf(ExtOf(name)) = "pdf"
    THEN {ToUint8(binary) : binary \in
             {r \in ReadFileResults(name) :
                 ~(r.typeof = "string" /\ AtobThrows(r.data))}}
    ELSE {}

\* C18: whenever a preview is shown, the name displayed is the name of a file
\* of the folder and the content shown (the text or table in fileContent,
\* the blob behind pdfUrl) is content of that file.
C18_NameMatchesContent ==
    /\ fileContent # Null
       => fileName \in Names /\ fileContent \in ContentsOf(fileName)
    /\ pdfUrl # EmptyString
       => /\ fileName \in Names
          /\ \E k \in DOMAIN objectUrls :
                pdfUrl = BlobUrl(k) /\ objectUrls[k] \in BlobsOf(fileName)

\* With a single open call the name displayed always matches the content
\* shown.
C18_SingleOpenMatches == Len(opens) <= 1 => C18_NameMatchesContent

\* C19: fileName is empty exactly when no open call was made since the page
\* was mounted or since the preview was last closed (openFile sets it to a
\* file name, only the close handler empties it); in such a state no preview
\* is shown.
C19_ClosedStaysClosed == fileName = EmptyString => ~PreviewShown

\* C20: when a list call ends, no file that a delete has removed is in the
\* catalog, also when the call was in flight during the delete; and a list
\* call whose stats still pending are all of files that a delete has removed
\* ends without its catch emptying the catalog.
C20_ListInFlightKeepsDelete ==
    [][ \A t \in DOMAIN lists :
          (ListInFlight(t) /\ ~ListInFlight(t)')
          => /\ NamesOf(files') \cap Deleted = {}
             /\ ( /\ lists[t].pc = "stat"
                  /\ {lists[t].entries[i].name : i \in lists[t].pending}
                        \subseteq Deleted )
                => lists'[t].pc = "done" ]_vars

\* The first half of C20 alone: a list call never ends with a deleted file
\* in the catalog.
C20_NeverPutsBack ==
    [][ \A t \in DOMAIN lists :
          (ListInFlight(t) /\ ~ListInFlight(t)')
          => NamesOf(files') \cap Deleted = {} ]_vars

\* The second half of C20 alone: a list call that only waits for stats of
\* deleted files does not end in its catch.
C20_NeverEmptiesForDeleted ==
    [][ \A t \in DOMAIN lists :
          ( /\ lists[t].pc = "stat"
            /\ ~ListInFlight(t)'
            /\ {lists[t].entries[i].name : i \in lists[t].pending}
                  \subseteq Deleted )
          => lists'[t].pc = "done" ]_vars

====
